---- MODULE Spec2Model ----
(***************************************************************************)
(* Spool-Maker: the record codec, the NDEF framing, the page transport and *)
(* the read / write sessions of NFCSpool.py, with the two GUI handlers of  *)
(* SpoolMaker.py that call them.                                           *)
(*                                                                         *)
(* Bytes are integers 0..255, byte strings are sequences of bytes, text is *)
(* a sequence of Unicode code points.  Python slices are 0-based and       *)
(* clamp at the end of the sequence (Slice).  A Python call that can raise *)
(* is modelled by a record [ok |-> TRUE, val |-> v] or                     *)
(* [ok |-> FALSE, exc |-> "<exception class>"].  A value used more than    *)
(* once is passed as the argument of a local operator, so that it is       *)
(* computed once.                                                          *)
(***************************************************************************)
EXTENDS Integers, Sequences, FiniteSets, TLC

(***************************************************************************)
(* Byte-string helpers                                                     *)
(***************************************************************************)
Min(a, b) == IF a < b THEN a ELSE b

\* b'\x00' * n
Zeros(n) == [z \in 1..n |-> 0]

\* s[a:b] of Python, 0 <= a, 0 <= b
Slice(s, a, b) == SubSeq(s, a + 1, Min(b, Len(s)))

RECURSIVE Flatten(_)
\* [item for sublist in data for item in sublist]  /  b''.join(results),
\* computed by halves
Flatten(ss) ==
    IF Len(ss) = 0 THEN <<>>
    ELSE IF Len(ss) = 1 THEN ss[1]
    ELSE Flatten(SubSeq(ss, 1, Len(ss) \div 2))
         \o Flatten(SubSeq(ss, (Len(ss) \div 2) + 1, Len(ss)))

RECURSIVE Pow2(_)
Pow2(n) == IF n = 0 THEN 1 ELSE 2 * Pow2(n - 1)

RECURSIVE PackBE(_, _)
\* struct.pack big-endian, unsigned, w bytes (the caller checks the range)
PackBE(n, w) == IF w = 0 THEN <<>> ELSE PackBE(n \div 256, w - 1) \o <<n % 256>>

RECURSIVE UnpackBE(_)
\* struct.unpack big-endian, unsigned
UnpackBE(s) ==
    IF s = <<>> THEN 0 ELSE 256 * UnpackBE(SubSeq(s, 1, Len(s) - 1)) + s[Len(s)]

\* struct.pack range check of an unsigned field of w bytes, 0 .. 2^(8w)-1;
\* every number of the model is below 2^31, so a field of 4 or 8 bytes
\* only refuses negative numbers
FitsUnsigned(n, w) == n >= 0 /\ (w >= 4 \/ n < Pow2(8 * w))

\* a ^ b on bytes
XorByte ==
    [a \in 0..255 |-> [b \in 0..255 |->
        LET x(w) == (((a \div w) % 2) + ((b \div w) % 2)) % 2
        IN  x(1) + 2 * x(2) + 4 * x(4) + 8 * x(8) + 16 * x(16) + 32 * x(32)
            + 64 * x(64) + 128 * x(128)]]

\* one bit of the CRC-8 register, polynomial 0x07
Crc8Shift1 ==
    [c \in 0..255 |-> IF c >= 128 THEN XorByte[(2 * c) % 256][7] ELSE (2 * c) % 256]

\* the register after one input byte
Crc8Table ==
    [x \in 0..255 |->
        Crc8Shift1[Crc8Shift1[Crc8Shift1[Crc8Shift1[
        Crc8Shift1[Crc8Shift1[Crc8Shift1[Crc8Shift1[x]]]]]]]]]

\* crc8(s).digest()[0]: CRC-8, polynomial 0x07, initial value 0
crc8(s) ==
    LET reg[k \in 0..Len(s)] ==
            IF k = 0 THEN 0 ELSE Crc8Table[XorByte[reg[k - 1]][s[k]]]
    IN  reg[Len(s)]

(***************************************************************************)
(* Text: str.encode('utf-8'), bytes.decode('utf-8'), split('\x00')[0]      *)
(***************************************************************************)
\* code points below 0x800 (one- and two-byte forms)
Utf8Encode(text) ==
    Flatten([n \in 1..Len(text) |->
                IF text[n] < 128 THEN <<text[n]>>
                ELSE <<192 + (text[n] \div 64), 128 + (text[n] % 64)>>])

Utf8Lead(x) == x >= 194 /\ x <= 223
Utf8Cont(x) == x >= 128 /\ x <= 191

\* strict decoding of the one- and two-byte forms: every byte is ASCII, a
\* lead byte followed by a continuation byte, or that continuation byte;
\* any other byte raises
Utf8Decode(bs) ==
    LET Chars(starts) ==
            [j \in 1..Len(starts) |->
                IF bs[starts[j]] < 128 THEN bs[starts[j]]
                ELSE (bs[starts[j]] - 192) * 64 + (bs[starts[j] + 1] - 128)]
    IN  IF \A i \in 1..Len(bs) :
              /\ bs[i] < 128 \/ Utf8Lead(bs[i]) \/ Utf8Cont(bs[i])
              /\ Utf8Lead(bs[i]) => (i < Len(bs) /\ Utf8Cont(bs[i + 1]))
              /\ Utf8Cont(bs[i]) => (i > 1 /\ Utf8Lead(bs[i - 1]))
        THEN [ok |-> TRUE,
              val |-> Chars(SelectSeq([i \in 1..Len(bs) |-> i],
                                      LAMBDA i : ~Utf8Cont(bs[i])))]
        ELSE [ok |-> FALSE, exc |-> "UnicodeDecodeError"]

\* text.split('\x00')[0]
UpToNul(text) ==
    IF \E i \in 1..Len(text) : text[i] = 0
    THEN SubSeq(text, 1, (CHOOSE i \in 1..Len(text) :
                             text[i] = 0 /\ \A j \in 1..(i - 1) : text[j] /= 0) - 1)
    ELSE text

(***************************************************************************)
(* uuid.UUID(hex) and str(uuid)                                            *)
(***************************************************************************)
HexValue(c) ==
    IF c >= 48 /\ c <= 57 THEN c - 48
    ELSE IF c >= 97 /\ c <= 102 THEN c - 87
    ELSE IF c >= 65 /\ c <= 70 THEN c - 55
    ELSE -1

HexChar(v) == IF v < 10 THEN 48 + v ELSE 87 + v

HexPairs(hx) ==
    [n \in 1..(Len(hx) \div 2) |-> 16 * HexValue(hx[2 * n - 1]) + HexValue(hx[2 * n])]

\* uuid.UUID(id): dashes and braces are dropped, 32 hex digits must remain
\* (the 'urn:' / 'uuid:' prefixes are not among the modelled inputs)
uuid_UUID(id) ==
    LET Parse(h) ==
            IF Len(h) /= 32 \/ \E i \in 1..Len(h) : HexValue(h[i]) < 0
            THEN [ok |-> FALSE, exc |-> "ValueError"]
            ELSE [ok |-> TRUE, val |-> HexPairs(h)]
    IN  Parse(SelectSeq(id, LAMBDA ch : ch \notin {45, 123, 125}))

\* lower-case hex digits of a byte string
HexOfBytes(bs) ==
    [n \in 1..(2 * Len(bs)) |->
        IF n % 2 = 1 THEN HexChar(bs[(n + 1) \div 2] \div 16)
        ELSE HexChar(bs[n \div 2] % 16)]

\* str(uuid): 8-4-4-4-12 lower-case hex digits
uuid_str(b) ==
    LET Dashed(h) ==
            SubSeq(h, 1, 8) \o <<45>> \o SubSeq(h, 9, 12) \o <<45>> \o SubSeq(h, 13, 16)
            \o <<45>> \o SubSeq(h, 17, 20) \o <<45>> \o SubSeq(h, 21, 32)
    IN  Dashed(HexOfBytes(b))

\* hexlify(bytes(uid_data)).decode('latin').upper()
SerialOfUid(uid_data) ==
    LET Upper(h) == [n \in 1..Len(h) |-> IF h[n] >= 97 THEN h[n] - 32 ELSE h[n]]
    IN  Upper(HexOfBytes(uid_data))

(***************************************************************************)
(* Record codec                                                            *)
(***************************************************************************)
MaterialPayloadSize == 108
StatPayloadSize == 20
SerialFieldSize == 14

NO_MATERIAL == Zeros(16)

\* UltimakerMaterialRecord.__init__
UltimakerMaterialRecord(material_id, serial, version, compat_version, manufacturing_ts, station_id, batch_code) ==
    [cls |-> "UltimakerMaterialRecord",
     version |-> version, compat_version |-> compat_version,
     serial |-> serial, manufacturing_ts |-> manufacturing_ts,
     material_id |-> material_id, station_id |-> station_id,
     batch_code |-> batch_code]

\* _encode_payload with `data += serial` in place of `data += serial[:14]`
UltimakerMaterialRecord_encode_payload_whole_serial(r) ==
    IF ~(FitsUnsigned(r.version, 1) /\ FitsUnsigned(r.compat_version, 1)
         /\ FitsUnsigned(r.manufacturing_ts, 8) /\ FitsUnsigned(r.station_id, 2))
    THEN [ok |-> FALSE, exc |-> "struct.error"]
    ELSE LET serial == Utf8Encode(r.serial) \o Zeros(SerialFieldSize)
             data   == PackBE(r.version, 1) \o PackBE(r.compat_version, 1)
                       \o serial
                       \o PackBE(r.manufacturing_ts, 8)
                       \o r.material_id
                       \o PackBE(r.station_id, 2)
                       \o Utf8Encode(r.batch_code)
                       \o Zeros(MaterialPayloadSize)
         IN  [ok |-> TRUE, val |-> Slice(data, 0, MaterialPayloadSize)]

\* UltimakerMaterialRecord._encode_payload
UltimakerMaterialRecord_encode_payload(r) ==
    IF ~(FitsUnsigned(r.version, 1) /\ FitsUnsigned(r.compat_version, 1)
         /\ FitsUnsigned(r.manufacturing_ts, 8) /\ FitsUnsigned(r.station_id, 2))
    THEN [ok |-> FALSE, exc |-> "struct.error"]
    ELSE LET serial == Utf8Encode(r.serial) \o Zeros(SerialFieldSize)
             data   == PackBE(r.version, 1) \o PackBE(r.compat_version, 1)
                       \o Slice(serial, 0, SerialFieldSize)
                       \o PackBE(r.manufacturing_ts, 8)
                       \o r.material_id
                       \o PackBE(r.station_id, 2)
                       \o Utf8Encode(r.batch_code)
                       \o Zeros(MaterialPayloadSize)
         IN  [ok |-> TRUE, val |-> Slice(data, 0, MaterialPayloadSize)]

BatchDecodeEnd == 106

\* UltimakerMaterialRecord._decode_payload
UltimakerMaterialRecord_decode_payload(octets) ==
    LET Fields(serial, batch) ==
            IF Len(Slice(octets, 0, 2)) < 2 THEN [ok |-> FALSE, exc |-> "DecodeError"]
            ELSE IF ~serial.ok THEN serial
            ELSE IF Len(Slice(octets, 16, 24)) < 8 THEN [ok |-> FALSE, exc |-> "DecodeError"]
            ELSE IF Len(Slice(octets, 24, 40)) /= 16 THEN [ok |-> FALSE, exc |-> "ValueError"]
            ELSE IF Len(Slice(octets, 40, 42)) < 2 THEN [ok |-> FALSE, exc |-> "DecodeError"]
            ELSE IF ~batch.ok THEN batch
            ELSE [ok |-> TRUE, warn |-> FALSE,
                  val |-> UltimakerMaterialRecord(
                              Slice(octets, 24, 40), UpToNul(serial.val),
                              octets[1], octets[2],
                              UnpackBE(Slice(octets, 16, 24)),
                              UnpackBE(Slice(octets, 40, 42)),
                              UpToNul(batch.val))]
    IN  Fields(Utf8Decode(Slice(octets, 2, 16)),
               Utf8Decode(Slice(octets, 42, BatchDecodeEnd)))

\* ['N/A', 'mm', 'mg', 'cm3'][material_unit]: Python list indexing
UnitNames == <<"N/A", "mm", "mg", "cm3">>

\* UltimakerStatRecord.__init__ (material_remaining=None means material_total)
UltimakerStatRecord(material_total, material_unit, material_remaining, total_usage_duration, version, compat_version) ==
    IF material_unit < -4 \/ material_unit > 3
    THEN [ok |-> FALSE, exc |-> "IndexError"]
    ELSE [ok |-> TRUE,
          val |-> [cls |-> "UltimakerStatRecord",
                   version |-> version, compat_version |-> compat_version,
                   material_unit |-> material_unit,
                   material_total |-> material_total,
                   material_remaining |-> material_remaining,
                   total_usage_duration |-> total_usage_duration,
                   unit |-> UnitNames[((material_unit + 4) % 4) + 1]]]

\* UltimakerStatRecord._encode_payload
UltimakerStatRecord_encode_payload(r) ==
    IF ~(FitsUnsigned(r.version, 1) /\ FitsUnsigned(r.compat_version, 1)
         /\ FitsUnsigned(r.material_unit, 1) /\ FitsUnsigned(r.material_total, 4)
         /\ FitsUnsigned(r.material_remaining, 4)
         /\ FitsUnsigned(r.total_usage_duration, 8))
    THEN [ok |-> FALSE, exc |-> "struct.error"]
    ELSE LET data == PackBE(r.version, 1) \o PackBE(r.compat_version, 1)
                     \o PackBE(r.material_unit, 1) \o PackBE(r.material_total, 4)
                     \o PackBE(r.material_remaining, 4)
                     \o PackBE(r.total_usage_duration, 8)
             data2 == Slice(data, 0, 19) \o <<crc8(Slice(data, 0, 19))>>
         IN  [ok |-> TRUE, val |-> Slice(data2, 0, StatPayloadSize)]

\* a Stat decoder that rejects a payload whose crc byte does not match
UltimakerStatRecord_decode_payload_strict(octets) ==
    LET Checked(r) ==
            IF r.ok /\ octets[20] /= crc8(Slice(octets, 0, 19))
            THEN [ok |-> FALSE, exc |-> "DecodeError"]
            ELSE IF r.ok THEN [ok |-> TRUE, warn |-> FALSE, val |-> r.val]
            ELSE r
    IN  IF Len(octets) < 19 THEN [ok |-> FALSE, exc |-> "DecodeError"]
        ELSE IF Len(octets) < 20 THEN [ok |-> FALSE, exc |-> "IndexError"]
        ELSE Checked(UltimakerStatRecord(UnpackBE(Slice(octets, 3, 7)), octets[3],
                                         UnpackBE(Slice(octets, 7, 11)),
                                         UnpackBE(Slice(octets, 11, 19)),
                                         octets[1], octets[2]))

\* UltimakerStatRecord._decode_payload; warn: the crc mismatch line is printed
UltimakerStatRecord_decode_payload(octets) ==
    LET Checked(r) ==
            IF r.ok
            THEN [ok |-> TRUE, warn |-> (octets[20] /= crc8(Slice(octets, 0, 19))),
                  val |-> r.val]
            ELSE r
    IN  IF Len(octets) < 19 THEN [ok |-> FALSE, exc |-> "DecodeError"]
        ELSE IF Len(octets) < 20 THEN [ok |-> FALSE, exc |-> "IndexError"]
        ELSE Checked(UltimakerStatRecord(UnpackBE(Slice(octets, 3, 7)), octets[3],
                                         UnpackBE(Slice(octets, 7, 11)),
                                         UnpackBE(Slice(octets, 11, 19)),
                                         octets[1], octets[2]))

SigMinPayload == 2

\* SigRecord.__init__
SigRecord(sig) == [cls |-> "SigRecord", sig |-> sig]

\* SigRecord._encode_payload
SigRecord_encode_payload(r) ==
    IF FitsUnsigned(r.sig, 2) THEN [ok |-> TRUE, val |-> PackBE(r.sig, 2)]
    ELSE [ok |-> FALSE, exc |-> "struct.error"]

\* SigRecord._decode_payload, behind the _decode_min_payload_length check
SigRecord_decode_payload(octets) ==
    IF Len(octets) < SigMinPayload THEN [ok |-> FALSE, exc |-> "DecodeError"]
    ELSE [ok |-> TRUE, warn |-> FALSE, val |-> SigRecord(UnpackBE(Slice(octets, 0, 2)))]

(***************************************************************************)
(* NDEF framing: the record types registered with Record.register_type,    *)
(* message.message_encoder as MyFilamentSpool.data() drives it, and        *)
(* message.message_decoder(octets, errors='relax') as decode() drives it.  *)
(***************************************************************************)
TypeMaterial == <<117, 108, 116, 105, 109, 97, 107, 101, 114, 46, 110, 108, 58,
                  109, 97, 116, 101, 114, 105, 97, 108>>
TypeStat == <<117, 108, 116, 105, 109, 97, 107, 101, 114, 46, 110, 108, 58,
              115, 116, 97, 116>>
TypeSig == <<83, 105, 103>>

TnfWellKnown == 1
TnfExternal == 4

\* _type and _name of the three record classes ('urn:nfc:ext:' is TNF 4,
\* 'urn:nfc:wkt:' is TNF 1)
RecordType(cls) ==
    IF cls = "UltimakerMaterialRecord"
    THEN [tnf |-> TnfExternal, type |-> TypeMaterial, name |-> <<49>>]
    ELSE IF cls = "UltimakerStatRecord"
    THEN [tnf |-> TnfExternal, type |-> TypeStat, name |-> <<50>>]
    ELSE [tnf |-> TnfWellKnown, type |-> TypeSig, name |-> <<>>]

KnownClasses == {"UltimakerMaterialRecord", "UltimakerStatRecord", "SigRecord"}

\* the _encode_payload of the record's class
EncodePayload(r) ==
    IF r.cls = "UltimakerMaterialRecord" THEN UltimakerMaterialRecord_encode_payload(r)
    ELSE IF r.cls = "UltimakerStatRecord" THEN UltimakerStatRecord_encode_payload(r)
    ELSE SigRecord_encode_payload(r)

\* the _decode_payload of a registered class
DecodePayload(cls, octets) ==
    IF cls = "UltimakerMaterialRecord" THEN UltimakerMaterialRecord_decode_payload(octets)
    ELSE IF cls = "UltimakerStatRecord" THEN UltimakerStatRecord_decode_payload(octets)
    ELSE SigRecord_decode_payload(octets)

Bit(b) == IF b THEN 1 ELSE 0

\* one record on the wire: flags, TYPE_LENGTH, PAYLOAD_LENGTH (one byte, the
\* payloads are shorter than 256), ID_LENGTH when the record has a name,
\* TYPE, ID, PAYLOAD
Frame(tnf, type, name, payload, mb, me) ==
    <<128 * Bit(mb) + 64 * Bit(me) + 16 + 8 * Bit(Len(name) > 0) + tnf,
      Len(type), Len(payload)>>
    \o (IF Len(name) > 0 THEN <<Len(name)>> ELSE <<>>)
    \o type \o name \o payload

\* Record._encode of a record of one of the three classes
RecordEncode(r, mb, me) ==
    LET Wire(p, t) ==
            IF ~p.ok THEN p
            ELSE [ok |-> TRUE, val |-> Frame(t.tnf, t.type, t.name, p.val, mb, me)]
    IN  Wire(EncodePayload(r), RecordType(r.cls))

MaxPayloadSize == 1048576

\* the header of Record._decode at offset pos of the buffer: "end" when the
\* buffer is exhausted, "error" when a flag, a length or a field is wrong or
\* runs past the buffer, "hdr" with the flags, TNF, TYPE, ID, PAYLOAD and
\* the offset after the record
RecordHeader(octets, pos) ==
    IF pos >= Len(octets) THEN [kind |-> "end"]
    ELSE
    LET octet0 == octets[pos + 1]
        mb  == (octet0 \div 128) % 2 = 1
        me  == (octet0 \div 64) % 2 = 1
        cf  == (octet0 \div 32) % 2 = 1
        sr  == (octet0 \div 16) % 2 = 1
        il  == (octet0 \div 8) % 2 = 1
        tnf == octet0 % 8
        nlen == 1 + (IF sr THEN 1 ELSE 4) + Bit(il)
        lens == Slice(octets, pos + 1, pos + 1 + nlen)
        plenBytes == IF sr THEN <<0, 0, 0, lens[2]>> ELSE SubSeq(lens, 2, 5)
        type_length == lens[1]
        payload_length == UnpackBE(Tail(plenBytes))
        id_length == IF il THEN lens[nlen] ELSE 0
        p0 == pos + 1 + nlen
        type == Slice(octets, p0, p0 + type_length)
        id   == Slice(octets, p0 + type_length, p0 + type_length + id_length)
        payload == Slice(octets, p0 + type_length + id_length,
                         p0 + type_length + id_length + payload_length)
    IN  IF tnf = 7 THEN [kind |-> "error", exc |-> "DecodeError"]
        ELSE IF Len(lens) < nlen THEN [kind |-> "error", exc |-> "DecodeError"]
        ELSE IF tnf \in {0, 5, 6} /\ type_length > 0
             THEN [kind |-> "error", exc |-> "DecodeError"]
        ELSE IF tnf = 0 /\ (id_length > 0 \/ plenBytes /= <<0, 0, 0, 0>>)
             THEN [kind |-> "error", exc |-> "DecodeError"]
        ELSE IF tnf \in {1, 2, 3, 4} /\ type_length = 0
             THEN [kind |-> "error", exc |-> "DecodeError"]
        ELSE IF plenBytes[1] /= 0 \/ payload_length > MaxPayloadSize
             THEN [kind |-> "error", exc |-> "DecodeError"]
        ELSE IF Len(type) < type_length \/ Len(id) < id_length
                \/ Len(payload) < payload_length
             THEN [kind |-> "error", exc |-> "DecodeError"]
        ELSE [kind |-> "hdr", mb |-> mb, me |-> me, cf |-> cf, tnf |-> tnf,
              type |-> type, id |-> id, payload |-> payload,
              next |-> p0 + type_length + id_length + payload_length]

\* Record._decode at offset pos: the header, then the payload decoder of the
\* registered class or a generic Record for any other type
RecordDecode(octets, pos) ==
    LET Made(h, dp) ==
            IF dp.ok
            THEN [kind |-> "rec", rec |-> dp.val, name |-> h.id, warn |-> dp.warn,
                  mb |-> h.mb, me |-> h.me, cf |-> h.cf, next |-> h.next]
            ELSE [kind |-> "error", exc |-> dp.exc]
        Typed(h, known) ==
            IF known /= {}
            THEN Made(h, DecodePayload(CHOOSE cl \in known : TRUE, h.payload))
            ELSE [kind |-> "rec",
                  rec |-> [cls |-> "Record", tnf |-> h.tnf, type |-> h.type,
                           data |-> h.payload],
                  name |-> h.id, warn |-> FALSE,
                  mb |-> h.mb, me |-> h.me, cf |-> h.cf, next |-> h.next]
        Dispatch(h) ==
            IF h.kind /= "hdr" THEN h
            ELSE Typed(h, {cl \in KnownClasses :
                              RecordType(cl).tnf = h.tnf /\ RecordType(cl).type = h.type})
    IN  Dispatch(RecordHeader(octets, pos))

\* where the decoder reads its next record after the one at pos; pos itself
\* when it stops there (end of buffer, bad header, message-end flag)
NextOffset(octets, pos) ==
    LET After(h) == IF h.kind = "hdr" /\ ~h.me THEN h.next ELSE pos
    IN  After(RecordHeader(octets, pos))

\* a table of offsets composed with itself
Twice(j) == <<>> \o [q \in 1..Len(j) |-> j[j[q]]]

RECURSIVE Reached(_, _, _)
\* the entries reached from those of r in fewer than 2^n steps of table j
Reached(j, r, n) ==
    IF n = 0 THEN r ELSE Reached(Twice(j), r \cup {j[q] : q \in r}, n - 1)

\* the elements of a finite set of numbers in increasing order
SortedSeq(S) ==
    [n \in 1..Cardinality(S) |->
        CHOOSE x \in S : Cardinality({y \in S : y < x}) = n - 1]

\* the offsets at which the decoder reads a record header, in order.  A
\* record takes at least 3 bytes, so fewer than 2^9 steps cover any buffer
\* the model holds; entry q of the table stands for offset q - 1
RecordOffsets(octets) ==
    LET Offsets(sorted) == [n \in 1..Len(sorted) |-> sorted[n] - 1]
    IN  Offsets(<<>> \o SortedSeq(
            Reached(<<>> \o [q \in 1..(Len(octets) + 1) |->
                                NextOffset(octets, q - 1) + 1],
                    {1}, 9)))

\* message.message_decoder(octets, errors='relax'): the records the
\* generator yields, in order, and how it ends: exc = "" when it returns
\* (end of buffer or message-end flag), the exception it raises otherwise
message_decoder(octets) ==
    LET Outcome(ds, stop) ==
            [records |-> SubSeq(ds, 1, stop - 1),
             exc |-> IF stop <= Len(ds) /\ ds[stop].kind = "error"
                     THEN ds[stop].exc ELSE ""]
        Scan(ds) ==
            Outcome(ds, IF \A n \in 1..Len(ds) : ds[n].kind = "rec" THEN Len(ds) + 1
                        ELSE CHOOSE n \in 1..Len(ds) :
                                /\ ds[n].kind /= "rec"
                                /\ \A o \in 1..(n - 1) : ds[o].kind = "rec")
        Read(offs) == Scan(<<>> \o [n \in 1..Len(offs) |-> RecordDecode(octets, offs[n])])
    IN  Read(RecordOffsets(octets))

(***************************************************************************)
(* MyFilamentSpool, decode, the APDU commands                              *)
(***************************************************************************)
BatchCode == <<49, 50, 51, 52, 53, 54, 55, 56, 57, 65, 66>>
StationId == 45054
SigValue == 8192
PageSize == 4

\* MyFilamentSpool.__init__: guid is the 16 bytes of the uuid.UUID object
MyFilamentSpool(guid, serial, unit, weight) ==
    LET st == UltimakerStatRecord(weight, unit, weight, 0, 0, 0)
    IN  IF ~st.ok THEN st
        ELSE [ok |-> TRUE,
              val |-> [material |-> UltimakerMaterialRecord(guid, serial, 0, 0, 0,
                                                            StationId, BatchCode),
                       status |-> st.val]]

\* data() sending self.status to the encoder once
FramedMessage_one_stat(spool) ==
    LET Join(a, b, c) ==
            IF ~a.ok THEN a
            ELSE IF ~b.ok THEN b
            ELSE IF ~c.ok THEN c
            ELSE [ok |-> TRUE, val |-> Flatten(<<a.val, b.val, c.val>>)]
    IN  Join(RecordEncode(spool.material, TRUE, FALSE),
             RecordEncode(SigRecord(SigValue), FALSE, FALSE),
             RecordEncode(spool.status, FALSE, TRUE))

\* the four encoder.send results of data(), joined: Material (message begin),
\* Signature, Stat, Stat (message end)
FramedMessage(spool) ==
    LET Join(a, b, c, d) ==
            IF ~a.ok THEN a
            ELSE IF ~b.ok THEN b
            ELSE IF ~c.ok THEN c
            ELSE IF ~d.ok THEN d
            ELSE [ok |-> TRUE, val |-> Flatten(<<a.val, b.val, c.val, d.val>>)]
    IN  Join(RecordEncode(spool.material, TRUE, FALSE),
             RecordEncode(SigRecord(SigValue), FALSE, FALSE),
             RecordEncode(spool.status, FALSE, FALSE),
             RecordEncode(spool.status, FALSE, TRUE))

\* data() without its padding step
PadToPage_none(result) == result

\* the padding of data(): zero bytes up to a whole number of pages
PadToPage(result) ==
    IF Len(result) % PageSize /= 0
    THEN result \o Zeros(PageSize - (Len(result) % PageSize))
    ELSE result

\* MyFilamentSpool.data
MyFilamentSpool_data(spool) ==
    LET Padded(f) == IF f.ok THEN [ok |-> TRUE, val |-> PadToPage(f.val)] ELSE f
    IN  Padded(FramedMessage(spool))

\* record._total_usage_duration/3600, kept exact as whole hours and seconds
Hours(d) == [whole |-> d \div 3600, secs |-> d % 3600]

\* the loop of decode with an except branch that hands back the initial
\* values in place of the values taken so far
DecodeLoop_reset(recs, exc) ==
    LET Taken(last, hasStat, mats) ==
            [cardStatus |-> IF ~hasStat /\ exc /= "" THEN 1 ELSE 0,
             r_guid   |-> IF mats = {} \/ (~hasStat /\ exc /= "") THEN <<>>
                          ELSE uuid_str(recs[CHOOSE n \in mats : \A o \in mats : o <= n]
                                            .rec.material_id),
             r_total  |-> IF hasStat THEN recs[last].rec.material_total ELSE 0,
             r_remain |-> IF hasStat THEN recs[last].rec.material_remaining ELSE 0,
             r_time   |-> IF hasStat THEN Hours(recs[last].rec.total_usage_duration)
                          ELSE Hours(0)]
        Upto(last, hasStat) ==
            Taken(last, hasStat,
                  {n \in 1..last : recs[n].rec.cls = "UltimakerMaterialRecord"})
        Break(stats) ==
            Upto(IF stats = {} THEN Len(recs)
                 ELSE CHOOSE n \in stats : \A o \in stats : n <= o,
                 stats /= {})
    IN  Break({n \in 1..Len(recs) : recs[n].rec.cls = "UltimakerStatRecord"})

\* the for loop of decode(octets, ui=True) over the records the generator
\* yields: it takes the material id of each Material record it meets and
\* breaks at the first Stat record; exc is the exception the generator
\* raises after its last record, "" if none: raised inside the loop it
\* gives status 1 with the values taken so far
DecodeLoop(recs, exc) ==
    LET Taken(last, hasStat, mats) ==
            [cardStatus |-> IF ~hasStat /\ exc /= "" THEN 1 ELSE 0,
             r_guid   |-> IF mats = {} THEN <<>>
                          ELSE uuid_str(recs[CHOOSE n \in mats : \A o \in mats : o <= n]
                                            .rec.material_id),
             r_total  |-> IF hasStat THEN recs[last].rec.material_total ELSE 0,
             r_remain |-> IF hasStat THEN recs[last].rec.material_remaining ELSE 0,
             r_time   |-> IF hasStat THEN Hours(recs[last].rec.total_usage_duration)
                          ELSE Hours(0)]
        Upto(last, hasStat) ==
            Taken(last, hasStat,
                  {n \in 1..last : recs[n].rec.cls = "UltimakerMaterialRecord"})
        Break(stats) ==
            Upto(IF stats = {} THEN Len(recs)
                 ELSE CHOOSE n \in stats : \A o \in stats : n <= o,
                 stats /= {})
    IN  Break({n \in 1..Len(recs) : recs[n].rec.cls = "UltimakerStatRecord"})

\* decode(octets, ui=True) over a decoder that passes over a record it
\* cannot decode and goes on with the next one
decode_skipping(octets) ==
    LET Kept(ds) == DecodeLoop(SelectSeq(ds, LAMBDA d : d.kind = "rec"), "")
        Read(offs) == Kept(<<>> \o [n \in 1..Len(offs) |-> RecordDecode(octets, offs[n])])
    IN  Read(RecordOffsets(octets))

\* decode(octets, ui=True)
decode(octets) ==
    LET Loop(m) == DecodeLoop(m.records, m.exc)
    IN  Loop(message_decoder(octets))

get_uid == <<255, 202, 0, 0, 0>>
beep == <<255, 0, 64, 0, 4, 1, 0, 3, 3>>
sucess == <<144, 0>>
fail == <<99, 0>>
DEFAULT_SERIAL == <<48, 48, 58, 48, 48, 58, 48, 48, 58, 48, 48, 58, 48, 48, 58,
                    48, 48, 58, 48, 48>>
FirstPage == 4
tagDataLength == 300

\* cmd_read_page with the count of a 16-byte block read in place of a page
cmd_read_page_block(start) ==
    <<255, 176, (start \div 256) % 256, start % 256, (4 * PageSize) % 256>>

\* cmd_read_page(start)  (count=4)
cmd_read_page(start) ==
    <<255, 176, (start \div 256) % 256, start % 256, PageSize % 256>>

\* cmd_write_page with the two address bytes in little-endian order
cmd_write_page_low_first(start, data) ==
    <<255, 214, start % 256, (start \div 256) % 256, Len(data) % 256>> \o data

\* cmd_write_page(start, data)
cmd_write_page(start, data) ==
    <<255, 214, (start \div 256) % 256, start % 256, Len(data) % 256>> \o data

(***************************************************************************)
(* The card and the reader behind connection.transmit                      *)
(***************************************************************************)
\* a card: its UID, the bytes of pages 4..78, and the pages that refuse a
\* write (lock bits) and answer 63 00
Card(uid, mem, locked) == [uid |-> uid, mem |-> mem, locked |-> locked]

\* the bytes of page `page`
PageOf(mem, page) ==
    Slice(mem, PageSize * (page - FirstPage), PageSize * (page - FirstPage) + PageSize)

\* memory after page `page` is overwritten with the 4 bytes of data
WriteMem(mem, page, data) ==
    [n \in 1..Len(mem) |->
        IF n > PageSize * (page - FirstPage) /\ n <= PageSize * (page - FirstPage) + Len(data)
        THEN data[n - PageSize * (page - FirstPage)]
        ELSE mem[n]]

(***************************************************************************)
(* Inputs                                                                  *)
(***************************************************************************)
IdGeneric == <<101, 57, 50, 99, 55, 55, 50, 51, 45, 48, 55, 54, 51, 45, 52, 99,
               98, 55, 45, 57, 56, 54, 52, 45, 53, 54, 50, 100, 99, 101, 55, 49,
               53, 99, 57, 101>>
IdBraced == <<123, 53, 48, 54, 67, 57, 70, 48, 68, 45, 69, 51, 65, 65, 45, 52, 66,
              68, 52, 45, 66, 50, 68, 50, 45, 50, 51, 69, 50, 52, 50, 53, 66, 49,
              65, 65, 57, 125>>
IdNotAGuid == <<110, 111, 116, 45, 97, 45, 103, 117, 105, 100>>

Ids == {IdGeneric, IdBraced, IdNotAGuid}
Units == {-1, 0, 2, 3, 4}
Weights == {750000, 1000000, -1}

Uid7 == <<4, 161, 178, 195, 212, 229, 246>>
Uid4 == <<222, 173, 190, 239>>
Uid10 == <<136, 4, 161, 178, 136, 195, 212, 229, 246, 17>>

\* pages 4.. of a factory-fresh NTAG216: an empty NDEF TLV, then zeros
FactoryMem == <<3, 0, 254, 0>> \o Zeros(tagDataLength - 4)

\* pages 4.. of a tag this program wrote earlier
SpoolMem ==
    LET Stored(im) == im \o Zeros(tagDataLength - Len(im))
    IN  Stored(MyFilamentSpool_data(
                   MyFilamentSpool(uuid_UUID(IdBraced).val, SerialOfUid(Uid7), 2,
                                   750000).val).val)

\* the same pages with the crc byte of the first Stat record off by one:
\* the last byte before the second Stat record, the fourth of the message
SpoolMemCrc ==
    LET Off(at) == [SpoolMem EXCEPT ![at] = (SpoolMem[at] + 1) % 256]
    IN  Off(RecordOffsets(SpoolMem)[4])

\* the cards put on the reader: a factory-fresh one, one written earlier,
\* one written earlier whose first Stat record has a wrong crc byte, and an
\* all-zero one whose page 10 is locked
Cards == {Card(Uid7, FactoryMem, {}), Card(Uid7, SpoolMem, {}),
          Card(Uid7, SpoolMemCrc, {}), Card(Uid4, Zeros(tagDataLength), {10})}

(***************************************************************************)
(* State                                                                   *)
(***************************************************************************)
VARIABLES
    pc,        \* where the running call of writeSpool / readSpool stands
    call,      \* the call: fn, ui, id, unit, tw, caller, post_write
    card,      \* the card on the reader
    service,   \* the local `service`: "None" or "service"
    sent,      \* the exchanges of this call, in order: cmd, recv, sw
    i,         \* the loop variable of the page loop
    serial,    \* the local `serial`
    tag_data,  \* the local `tag_data`
    data,      \* the local `data` of readSpool: the list of page responses
    ret,       \* how the call ended: a return value or an exception
    caught,    \* the exception a blocking call of this call raised, "" if none
    gui,       \* what the window shows
    cx         \* the codec harness (CodecSpec)

vars == <<pc, call, card, service, sent, i, serial, tag_data, data, ret, caught, gui, cx>>

NotEnded == [kind |-> "running"]
\* a Python return: py is "None", "NoneTuple" (n Nones) or "tuple" (items)
Return(py, n, items) == [kind |-> "return", py |-> py, n |-> n, items |-> items]
Raise(exc) == [kind |-> "raise", exc |-> exc]

GuiInit == [status |-> "", colorOn |-> FALSE, tagStatus |-> "", tagSerial |-> <<>>,
            tagGUID |-> <<>>, tagTWeight |-> 0, tagRWeight |-> 0]

NoCall == [fn |-> "", ui |-> FALSE, id |-> <<>>, unit |-> 0, tw |-> 0,
           caller |-> "", post_write |-> FALSE]

CodecOff == [step |-> "off"]

Init ==
    /\ pc = "idle"
    /\ call = NoCall
    /\ card \in Cards
    /\ service = "None"
    /\ sent = <<>>
    /\ i = 0
    /\ serial = <<>>
    /\ tag_data = <<>>
    /\ data = <<>>
    /\ ret = NotEnded
    /\ caught = ""
    /\ gui = GuiInit
    /\ cx = CodecOff

\* one exchange on the log
Exchange(cmd, recv, sw) == [cmd |-> cmd, recv |-> recv, sw |-> sw]

(***************************************************************************)
(* Callers                                                                 *)
(***************************************************************************)
Enter(c) ==
    /\ call' = c
    /\ pc' = "waitforcard"
    /\ service' = "None"
    /\ sent' = <<>>
    /\ i' = 0
    /\ serial' = <<>>
    /\ tag_data' = <<>>
    /\ data' = <<>>
    /\ ret' = NotEnded
    /\ caught' = ""

\* writeSpool(id, unit, tw, ui) called from a script (the command line
\* spool maker calls it with ui=False)
CallWriteSpool ==
    /\ pc = "idle"
    /\ \E id \in Ids, unit \in Units, tw \in Weights, ui \in BOOLEAN :
          Enter([fn |-> "writeSpool", ui |-> ui, id |-> id, unit |-> unit, tw |-> tw,
                 caller |-> "direct", post_write |-> FALSE])
    /\ UNCHANGED <<card, gui, cx>>

\* readSpool(ui) called from a script
CallReadSpool ==
    /\ pc = "idle"
    /\ \E ui \in BOOLEAN :
          Enter([fn |-> "readSpool", ui |-> ui, id |-> <<>>, unit |-> 0, tw |-> 0,
                 caller |-> "direct", post_write |-> FALSE])
    /\ UNCHANGED <<card, gui, cx>>

GuiIds == {IdGeneric, IdNotAGuid}
GuiWeights == {1000000, -1}
GuiUnit == 2

\* Ui.writeTag up to its call of writeSpool(guid, unit, weight)
WriteTag ==
    /\ pc = "idle"
    /\ \E guid \in GuiIds, weight \in GuiWeights :
          Enter([fn |-> "writeSpool", ui |-> FALSE, id |-> guid, unit |-> GuiUnit,
                 tw |-> weight, caller |-> "writeTag", post_write |-> FALSE])
    /\ gui' = [gui EXCEPT !.status = "Writing New Tag...", !.colorOn = FALSE]
    /\ UNCHANGED <<card, cx>>

\* Ui.readTag(post_write=False) up to its call of readSpool(ui=True)
ReadTag ==
    /\ pc = "idle"
    /\ Enter([fn |-> "readSpool", ui |-> TRUE, id |-> <<>>, unit |-> 0, tw |-> 0,
              caller |-> "readTag", post_write |-> FALSE])
    /\ gui' = [gui EXCEPT !.status = "Waiting for tag...", !.colorOn = FALSE]
    /\ UNCHANGED <<card, cx>>

(***************************************************************************)
(* writeSpool and readSpool, one action per blocking call                  *)
(***************************************************************************)
Ends(r) ==
    /\ ret' = r
    /\ pc' = IF r.kind = "raise" THEN "raised" ELSE "returned"

\* request.waitforcard() returns a service
CardDetected ==
    /\ pc = "waitforcard"
    /\ service' = "service"
    /\ pc' = "connect"
    /\ UNCHANGED <<call, card, sent, i, serial, tag_data, data, ret, caught, gui, cx>>

\* request.waitforcard() raises CardRequestTimeoutException: with ui the
\* call returns Nones; without ui it goes on to service.connection with
\* service = None
CardTimeout ==
    /\ pc = "waitforcard"
    /\ Ends(IF call.ui
            THEN Return("NoneTuple", IF call.fn = "writeSpool" THEN 2 ELSE 6, <<>>)
            ELSE Raise("AttributeError"))
    /\ caught' = "CardRequestTimeoutException"
    /\ UNCHANGED <<call, card, service, sent, i, serial, tag_data, data, gui, cx>>

\* connection.connect()
Connect ==
    /\ pc = "connect"
    /\ pc' = "get_uid"
    /\ UNCHANGED <<call, card, service, sent, i, serial, tag_data, data, ret, caught, gui, cx>>

\* connection.transmit(get_uid) and the serial made of the answer
GetUid ==
    /\ pc = "get_uid"
    /\ sent' = Append(sent, Exchange(get_uid, card.uid, sucess))
    /\ serial' = SerialOfUid(card.uid)
    /\ i' = 0
    /\ data' = <<>>
    /\ pc' = IF call.fn = "writeSpool" THEN "build" ELSE "read_page"
    /\ UNCHANGED <<call, card, service, tag_data, ret, caught, gui, cx>>

\* an image builder that hands back one blank page when the inputs cannot
\* be encoded
BuildImage_blank_page(id, ser, unit, tw) ==
    LET Image(sp) == IF ~sp.ok THEN [ok |-> TRUE, val |-> Zeros(PageSize)]
                     ELSE MyFilamentSpool_data(sp.val)
        Spool(u) == IF ~u.ok THEN [ok |-> TRUE, val |-> Zeros(PageSize)]
                    ELSE Image(MyFilamentSpool(u.val, ser, unit, tw))
    IN  Spool(uuid_UUID(id))

\* the result of uuid.UUID(id), MyFilamentSpool(...), spool.data()
BuildImage(id, ser, unit, tw) ==
    LET Image(sp) == IF ~sp.ok THEN sp ELSE MyFilamentSpool_data(sp.val)
        Spool(u) == IF ~u.ok THEN u ELSE Image(MyFilamentSpool(u.val, ser, unit, tw))
    IN  Spool(uuid_UUID(id))

\* writeSpool transmitting the beep once the image is built, ahead of the
\* page loop
BuildSpool_beep_first ==
    /\ pc = "build"
    /\ LET Built(b) ==
               IF b.ok
               THEN /\ tag_data' = b.val
                    /\ i' = 0
                    /\ pc' = IF Len(b.val) > 0 THEN "write_page" ELSE "beep"
                    /\ ret' = ret
                    /\ sent' = Append(sent, Exchange(beep, <<>>, sucess))
               ELSE /\ Ends(Raise(b.exc))
                    /\ UNCHANGED <<tag_data, i, sent>>
       IN  Built(BuildImage(call.id, serial, call.unit, call.tw))
    /\ UNCHANGED <<call, card, service, serial, data, caught, gui, cx>>

\* writeSpool from "Create spool data for this tag" to the head of the loop
BuildSpool ==
    /\ pc = "build"
    /\ LET Built(b) ==
               IF b.ok
               THEN /\ tag_data' = b.val
                    /\ i' = 0
                    /\ pc' = IF Len(b.val) > 0 THEN "write_page" ELSE "beep"
                    /\ ret' = ret
               ELSE /\ Ends(Raise(b.exc))
                    /\ UNCHANGED <<tag_data, i>>
       IN  Built(BuildImage(call.id, serial, call.unit, call.tw))
    /\ UNCHANGED <<call, card, service, sent, serial, data, caught, gui, cx>>

\* the step of the page loop of writeSpool
PageStep == 4

\* one turn of the write loop: connection.transmit(cmd_write_page(page, data))
WritePage ==
    /\ pc = "write_page"
    /\ LET page == (i \div PageSize) + FirstPage
           chunk == Slice(tag_data, i, i + PageSize)
           refused == page \in card.locked
       IN  /\ sent' = Append(sent, Exchange(cmd_write_page(page, chunk), <<>>,
                                            IF refused THEN fail ELSE sucess))
           /\ card' = IF refused THEN card
                      ELSE [card EXCEPT !.mem = WriteMem(card.mem, page, chunk)]
    /\ i' = i + PageStep
    /\ pc' = IF i + PageStep < Len(tag_data) THEN "write_page" ELSE "beep"
    /\ UNCHANGED <<call, service, serial, tag_data, data, ret, caught, gui, cx>>

\* connection.transmit(beep), decode(bytes(tag_data)) and the end of writeSpool
Beep ==
    /\ pc = "beep"
    /\ sent' = Append(sent, Exchange(beep, <<>>, sucess))
    /\ Ends(Return("None", 0, <<>>))
    /\ UNCHANGED <<call, card, service, i, serial, tag_data, data, caught, gui, cx>>

\* one turn of the read loop: connection.transmit(cmd_read_page(page))
ReadPage ==
    /\ pc = "read_page"
    /\ LET page == (i \div PageSize) + FirstPage
           pdata == PageOf(card.mem, page)
       IN  /\ sent' = Append(sent, Exchange(cmd_read_page(page), pdata, sucess))
           /\ data' = Append(data, pdata)
    /\ i' = i + PageStep
    /\ pc' = IF i + PageStep < tagDataLength THEN "read_page" ELSE "decode"
    /\ UNCHANGED <<call, card, service, serial, tag_data, ret, caught, gui, cx>>

\* readSpool after the loop: tag_data, decode and the return
ReadDecode ==
    /\ pc = "decode"
    /\ tag_data' = Flatten(data)
    /\ LET Outcome(d) ==
               Return("tuple", 6, <<d.cardStatus, serial, d.r_guid, d.r_total,
                                   d.r_remain, d.r_time>>)
       IN  Ends(IF call.ui THEN Outcome(decode(Flatten(data)))
                ELSE Return("None", 0, <<>>))
    /\ UNCHANGED <<call, card, service, sent, i, serial, data, caught, gui, cx>>

TransmitSteps == {"connect", "get_uid", "write_page", "beep", "read_page"}

\* a removal handled inside the loop: the exception is noted and the
\* sequence goes on with the same command
CardRemovedRetried ==
    /\ pc \in TransmitSteps
    /\ caught' = "NoCardException"
    /\ UNCHANGED <<pc, call, card, service, sent, i, serial, tag_data, data, ret, gui, cx>>

\* the card leaves the reader: the pending connect or transmit raises
\* NoCardException.  writeSpool prints and returns; readSpool returns the
\* status 2 tuple with ui and goes on to decode(bytes(tag_data)), with
\* tag_data never assigned, without ui
CardRemoved ==
    /\ pc \in TransmitSteps
    /\ Ends(IF call.fn = "writeSpool" THEN Return("None", 0, <<>>)
            ELSE IF call.ui THEN Return("tuple", 6, <<2, DEFAULT_SERIAL, 0, 0, 0, 0>>)
            ELSE Raise("UnboundLocalError"))
    /\ caught' = "NoCardException"
    /\ UNCHANGED <<call, card, service, sent, i, serial, tag_data, data, gui, cx>>

(***************************************************************************)
(* The window                                                              *)
(***************************************************************************)
\* ':'.join([uid[i:i+2] for i,j in enumerate(uid) if not (i%2)])
ColonPairs(uid) ==
    LET n == (Len(uid) + 1) \div 2
    IN  [m \in 1..(Len(uid) + n - 1) |->
            IF m % 3 = 0 THEN 58 ELSE uid[m - (m \div 3)]]

\* Ui.writeTag after writeSpool returned: the status line, then readTag(True)
WriteTagContinue ==
    /\ pc = "returned"
    /\ call.caller = "writeTag"
    /\ call.fn = "writeSpool"
    /\ gui' = [gui EXCEPT !.status = "Tag Write Successful", !.colorOn = TRUE]
    /\ Enter([fn |-> "readSpool", ui |-> TRUE, id |-> <<>>, unit |-> 0, tw |-> 0,
              caller |-> "writeTag", post_write |-> TRUE])
    /\ UNCHANGED <<card, cx>>

\* Ui.readTag after readSpool(ui=True) returned
ReadTagShow ==
    /\ pc = "returned"
    /\ call.caller \in {"readTag", "writeTag"}
    /\ call.fn = "readSpool"
    /\ pc' = "shown"
    /\ gui' =
         IF ret.py = "NoneTuple"
         THEN [gui EXCEPT !.status = "Tag Read Timed Out", !.colorOn = FALSE]
         ELSE LET g1 == [gui EXCEPT !.tagSerial = ColonPairs(ret.items[2])]
              IN  IF ret.items[1] = 0
                  THEN LET g2 == [g1 EXCEPT !.tagStatus = "Valid Spool Tag",
                                            !.tagGUID = ret.items[3],
                                            !.tagTWeight = ret.items[4],
                                            !.tagRWeight = ret.items[5]]
                       IN  IF call.post_write THEN g2
                           ELSE [g2 EXCEPT !.status = "Tag Read Successful",
                                           !.colorOn = TRUE]
                  ELSE IF ret.items[1] = 1
                  THEN LET g2 == [g1 EXCEPT !.tagStatus = "Blank Tag/Unknown Data"]
                       IN  IF call.post_write THEN g2
                           ELSE [g2 EXCEPT !.status = "Tag Read Successful",
                                           !.colorOn = TRUE]
                  ELSE [g1 EXCEPT !.status = "Tag Removed!", !.colorOn = FALSE]
    /\ UNCHANGED <<call, card, service, sent, i, serial, tag_data, data, ret, caught, cx>>

Next ==
    \/ CallWriteSpool
    \/ CallReadSpool
    \/ WriteTag
    \/ ReadTag
    \/ CardDetected
    \/ CardTimeout
    \/ Connect
    \/ GetUid
    \/ BuildSpool
    \/ WritePage
    \/ Beep
    \/ ReadPage
    \/ ReadDecode
    \/ CardRemoved
    \/ WriteTagContinue
    \/ ReadTagShow

Spec == Init /\ [][Next]_vars

(***************************************************************************)
(* The codec on its own: records encoded and decoded, spools turned into   *)
(* images, buffers decoded, outside any session                            *)
(***************************************************************************)
\* how many bytes past the end of its field an over-long text runs
ExtraLen == 2

\* a text of n capital letters
Letters(n) == [z \in 1..n |-> 65 + (z % 26)]

\* serial numbers: empty, short, filling the 14 bytes, over-long, and with
\* a two-byte character (233) inside the field and across its end
SerialTexts ==
    {Letters(n) : n \in {0, 1, 13, 14} \cup (15..(14 + ExtraLen))}
    \cup {<<233>> \o Letters(12), Letters(13) \o <<233>>}

\* batch codes: empty, the one MyFilamentSpool writes, 64 to 66 bytes,
\* over-long, and with a two-byte character ending at byte 64 and at 65
BatchTexts ==
    {Letters(n) : n \in {0, 64, 65, 66} \cup (67..(66 + ExtraLen))}
    \cup {BatchCode, Letters(62) \o <<233>>, Letters(63) \o <<233>>}

MaterialInputs ==
    {UltimakerMaterialRecord(id, s, n[1], n[2], n[3], n[4], b) :
        id \in {uuid_UUID(IdGeneric).val, NO_MATERIAL},
        s \in SerialTexts,
        n \in {<<0, 0, 0, StationId>>, <<1, 2, 1600000000, 65535>>, <<0, 0, 0, 65536>>},
        b \in BatchTexts}

StatInputs ==
    {UltimakerStatRecord(t, u, m, d, v, v).val :
        t \in {0, 750000, 1000000}, u \in (-1)..3, m \in {0, 500000},
        d \in {0, 3601}, v \in {0, 1}}

SigInputs == {SigRecord(g) : g \in {0, SigValue, 65535, 65536}}

\* the arguments of MyFilamentSpool(uuid.UUID(id), serial, unit, tw)
SpoolInputs ==
    {[id |-> d, serial |-> SerialOfUid(u), unit |-> n, weight |-> w] :
        d \in Ids, u \in {Uid7, Uid4, Uid10}, n \in Units, w \in Weights}

\* a record of a buffer: its class and its payload bytes
Part(cls, payload) == [cls |-> cls, payload |-> payload]

MaterialPart(len) ==
    Part("UltimakerMaterialRecord",
         Slice(EncodePayload(UltimakerMaterialRecord(uuid_UUID(IdGeneric).val,
                   SerialOfUid(Uid7), 0, 0, 0, StationId, BatchCode)).val, 0, len))

StatPart(len) ==
    Part("UltimakerStatRecord",
         Slice(EncodePayload(UltimakerStatRecord(1000000, 2, 750000, 7200, 0, 0).val).val,
               0, len))

SigPart(len) == Part("SigRecord", Slice(EncodePayload(SigRecord(SigValue)).val, 0, len))

\* the records framed one after the other, the first with the message-begin
\* flag and the last with the message-end flag
BufferOf(parts) ==
    Flatten([k \in 1..Len(parts) |->
                Frame(RecordType(parts[k].cls).tnf, RecordType(parts[k].cls).type,
                      RecordType(parts[k].cls).name, parts[k].payload,
                      k = 1, k = Len(parts))])

\* buffers of whole and of cut-short records
BufferParts ==
    {<<MaterialPart(n), StatPart(20)>> : n \in {0, 10, 30, 41, 42, 108}}
    \cup {<<MaterialPart(108), SigPart(n), StatPart(20), StatPart(20)>> : n \in {0, 1, 2}}
    \cup {<<MaterialPart(108), StatPart(n), StatPart(20)>> : n \in {0, 18, 19}}
    \cup {<<StatPart(20), MaterialPart(10)>>,
          <<MaterialPart(108), MaterialPart(10), StatPart(20)>>}

BufferInputs ==
    {[parts |-> ps, octets |-> BufferOf(ps) \o Zeros(z), tail |-> Zeros(z)] :
        ps \in BufferParts, z \in {0, 8}}

\* bytes that frame no record of a registered class whose payload its
\* decoder accepts: nothing, zeros (an empty record and a cut header, or
\* two empty records), FF bytes, bytes of no meaning, a record of a type
\* nobody registered (followed by a stray byte, or ending the message), a
\* Stat record cut in the middle of its
\* payload, a Stat record of 19 payload bytes, a Stat record whose unit
\* byte is 9
GarbageTails ==
    {<<>>, Zeros(8), Zeros(12), <<255, 255, 255, 255>>, <<222, 173, 190, 239, 1, 2, 3>>,
     Frame(TnfExternal, <<120, 46, 121, 58, 122>>, <<>>, <<1, 2, 3>>, FALSE, FALSE)
         \o <<7>>,
     Frame(TnfExternal, <<120, 46, 121, 58, 122>>, <<>>, <<1, 2, 3>>, FALSE, TRUE),
     Slice(Frame(TnfExternal, TypeStat, <<50>>, StatPart(20).payload, FALSE, TRUE), 0, 30),
     Frame(TnfExternal, TypeStat, <<50>>, StatPart(19).payload, FALSE, TRUE),
     Frame(TnfExternal, TypeStat, <<50>>,
           [n \in 1..20 |-> IF n = 3 THEN 9 ELSE StatPart(20).payload[n]], FALSE, TRUE)}

\* one whole Material record, with or without the message-end flag, and
\* garbage after it
GarbageInputs ==
    {[parts |-> <<MaterialPart(108)>>,
      octets |-> Frame(TnfExternal, TypeMaterial, <<49>>, MaterialPart(108).payload,
                       TRUE, me) \o g,
      tail |-> g] :
        g \in GarbageTails, me \in BOOLEAN}

\* the first 19 bytes of Stat payloads as a tag may hold them: those of the
\* records of StatInputs, and some with a unit byte no Stat record has
StatBodies ==
    {Slice(EncodePayload(r).val, 0, 19) : r \in {q \in StatInputs : EncodePayload(q).ok}}
    \cup {<<v, v, u>> \o PackBE(1000000, 4) \o PackBE(750000, 4) \o PackBE(7200, 8) :
             v \in {0, 3}, u \in {2, 4, 9, 255}}

\* 20-byte Stat payloads: the crc byte right (d = 0) and wrong
StatPayloads ==
    {[cls |-> "UltimakerStatRecord", body |-> b,
      octets |-> b \o <<(crc8(b) + d) % 256>>] :
        b \in StatBodies, d \in {0, 1, 128, 255}}

NoResult == [ok |-> FALSE, exc |-> ""]

CodecInit ==
    /\ pc = "idle"
    /\ call = NoCall
    /\ card = Card(Uid7, FactoryMem, {})
    /\ service = "None"
    /\ sent = <<>>
    /\ i = 0
    /\ serial = <<>>
    /\ tag_data = <<>>
    /\ data = <<>>
    /\ ret = NotEnded
    /\ caught = ""
    /\ gui = GuiInit
    /\ \/ \E r \in MaterialInputs \cup StatInputs \cup SigInputs :
             cx = [step |-> "input", kind |-> "record", input |-> r,
                   enc |-> NoResult, dec |-> NoResult]
       \/ \E a \in SpoolInputs :
             cx = [step |-> "input", kind |-> "spool", input |-> a,
                   enc |-> NoResult, dec |-> NoResult]
       \/ \E b \in BufferInputs \cup GarbageInputs :
             cx = [step |-> "input", kind |-> "buffer", input |-> b,
                   enc |-> NoResult, dec |-> NoResult]
       \/ \E o \in StatPayloads :
             cx = [step |-> "input", kind |-> "payload", input |-> o,
                   enc |-> NoResult, dec |-> NoResult]

SessionIdle == UNCHANGED <<pc, call, card, service, sent, i, serial, tag_data, data,
                           ret, caught, gui>>

\* record._encode_payload()
CodecEncode ==
    /\ cx.step = "input"
    /\ cx.kind = "record"
    /\ cx' = [cx EXCEPT !.step = "encoded", !.enc = EncodePayload(cx.input)]
    /\ SessionIdle

\* cls._decode_payload(octets, errors) of the bytes just encoded
CodecDecode ==
    /\ cx.step = "encoded"
    /\ cx.enc.ok
    /\ cx' = [cx EXCEPT !.step = "decoded",
                        !.dec = DecodePayload(cx.input.cls, cx.enc.val)]
    /\ SessionIdle

\* MyFilamentSpool(uuid.UUID(id), serial, unit, tw).data(): the joined
\* records before the padding, and the value returned
SpoolData ==
    /\ cx.step = "input"
    /\ cx.kind = "spool"
    /\ LET Both(sp) ==
               IF ~sp.ok THEN [framed |-> sp, image |-> sp]
               ELSE [framed |-> FramedMessage(sp.val),
                     image |-> MyFilamentSpool_data(sp.val)]
           Made(u) ==
               IF ~u.ok THEN [framed |-> u, image |-> u]
               ELSE Both(MyFilamentSpool(u.val, cx.input.serial, cx.input.unit,
                                         cx.input.weight))
       IN  cx' = [cx EXCEPT !.step = "built", !.enc = Made(uuid_UUID(cx.input.id))]
    /\ SessionIdle

\* decode(spool.data()): the records the decoder yields from the image and
\* what decode takes from them
SpoolDecode ==
    /\ cx.step = "built"
    /\ cx.enc.image.ok
    /\ cx' = [cx EXCEPT !.step = "checked",
                        !.dec = [m |-> message_decoder(cx.enc.image.val),
                                 ui |-> decode(cx.enc.image.val)]]
    /\ SessionIdle

\* decode(octets, ui=True) of a buffer, with the records the decoder yields
BufferDecode ==
    /\ cx.step = "input"
    /\ cx.kind = "buffer"
    /\ cx' = [cx EXCEPT !.step = "scanned",
                        !.dec = [m |-> message_decoder(cx.input.octets),
                                 ui |-> decode(cx.input.octets)]]
    /\ SessionIdle

\* cls._decode_payload(octets, errors) of the payload of a record read
\* from a tag
PayloadDecode ==
    /\ cx.step = "input"
    /\ cx.kind = "payload"
    /\ cx' = [cx EXCEPT !.step = "parsed",
                        !.dec = DecodePayload(cx.input.cls, cx.input.octets)]
    /\ SessionIdle

CodecNext ==
    \/ CodecEncode
    \/ CodecDecode
    \/ SpoolData
    \/ SpoolDecode
    \/ BufferDecode
    \/ PayloadDecode

CodecSpec == CodecInit /\ [][CodecNext]_vars

(***************************************************************************)
(* Properties of the sessions                                              *)
(***************************************************************************)
\* the write-page and the read-page exchanges of the running call, in the
\* order they were transmitted
WritePageCmds == SelectSeq(sent, LAMBDA e : Len(e.cmd) > 1 /\ e.cmd[2] = 214)
ReadPageCmds == SelectSeq(sent, LAMBDA e : Len(e.cmd) > 1 /\ e.cmd[2] = 176)

\* C1: in writeSpool the k-th write-page command transmitted (k = 1, 2, ..)
\* is FF D6 00 <3+k> 04 followed by the image bytes 4(k-1) .. 4k-1, so the
\* pages 4, 5, .. are written in order, none skipped or repeated; when the
\* call returns with no command failed, the image of L bytes (L a multiple
\* of 4) has given exactly L/4 write-page commands, sent between the
\* get-UID command and the beep with nothing else in between.
C1_WritePageSequence ==
    call.fn = "writeSpool" =>
        LET w == WritePageCmds
        IN  /\ \A k \in 1..Len(w) :
                  w[k].cmd = <<255, 214, 0, 3 + k, 4>> \o SubSeq(tag_data, 4 * k - 3, 4 * k)
            /\ (pc = "returned" /\ caught = "") =>
                  /\ Len(tag_data) % 4 = 0
                  /\ Len(w) = Len(tag_data) \div 4
                  /\ sent = <<Exchange(get_uid, card.uid, sucess)>> \o w
                            \o <<Exchange(beep, <<>>, sucess)>>

\* a write that went through: 57 pages and the beep
C1_WholeImageWritten ==
    /\ call.fn = "writeSpool"
    /\ pc = "returned"
    /\ caught = ""
    /\ Len(WritePageCmds) = 57
    /\ Len(tag_data) = 228

\* C2: in writeSpool, once a command has failed because the card was
\* removed, nothing more is transmitted in that call (no page write, no
\* beep) and the card is not written again; and no page is the target of
\* two write-page commands of one call.
C2_RemovalAbortsWrite ==
    /\ [](call.fn = "writeSpool" =>
            LET w == WritePageCmds
            IN  Cardinality({w[k].cmd[4] : k \in 1..Len(w)}) = Len(w))
    /\ [][(call.fn = "writeSpool" /\ caught = "NoCardException"
           /\ call'.fn = "writeSpool")
          => (sent' = sent /\ card' = card)]_vars

\* the card was removed at the third write-page command
C2_RemovedAfterTwoPages ==
    /\ call.fn = "writeSpool"
    /\ pc = "returned"
    /\ caught = "NoCardException"
    /\ Len(WritePageCmds) = 2
    /\ Len(sent) = 3

\* C3: what writeSpool hands back when the card was removed mid-sequence
\* or never presented differs from what it hands back after a complete
\* write (the implicit None of the end of the function), and writeTag
\* shows 'Tag Write Successful' only after a complete write.
C3_WriteOutcomeTellsFailure ==
    /\ (call.fn = "writeSpool" /\ pc \in {"returned", "raised"} /\ caught /= "")
          => ret /= Return("None", 0, <<>>)
    /\ [][(call.fn = "writeSpool" /\ call.caller = "writeTag"
           /\ gui'.status = "Tag Write Successful")
          => (caught = "" /\ Len(WritePageCmds) = Len(tag_data) \div 4
              /\ Len(tag_data) > 0)]_vars

\* writeSpool has returned None after a removal at the third page
C3_RemovedWriteReturnsNone ==
    /\ call.fn = "writeSpool"
    /\ caught = "NoCardException"
    /\ Len(WritePageCmds) = 2
    /\ ret = Return("None", 0, <<>>)

\* C4: whenever the wait for a card times out, writeSpool and readSpool,
\* with ui set or not, end by returning the 'no card' value (a tuple of
\* Nones) and transmit nothing.
C4_TimeoutReturnsNoCard ==
    caught = "CardRequestTimeoutException" =>
        /\ pc = "returned"
        /\ ret.kind = "return"
        /\ ret.py = "NoneTuple"
        /\ sent = <<>>

\* the wait timed out in a call with ui=False
C4_TimeoutWithoutUi ==
    /\ caught = "CardRequestTimeoutException"
    /\ ~call.ui
    /\ ret = Raise("AttributeError")

\* C5: when the card is removed after it was detected, readSpool, with ui
\* set or not, returns the 'removed' outcome (status 2 with the default
\* serial and zero quantities) and issues no further page read.
C5_RemovalReturnsRemoved ==
    (call.fn = "readSpool" /\ caught = "NoCardException") =>
        /\ pc \in {"returned", "shown"}
        /\ ret = Return("tuple", 6, <<2, DEFAULT_SERIAL, 0, 0, 0, 0>>)

\* the card was removed during a read with ui=False
C5_RemovalWithoutUi ==
    /\ call.fn = "readSpool"
    /\ caught = "NoCardException"
    /\ ~call.ui
    /\ Len(ReadPageCmds) = 2
    /\ ret = Raise("UnboundLocalError")

\* C6: in readSpool the k-th read-page command transmitted is
\* FF B0 00 <3+k> 04 (pages 4, 5, .. in order, 4 bytes each); a call that
\* ends with no command failed has transmitted exactly 75 of them, right
\* after the get-UID command, and the buffer it decodes is the
\* concatenation of their 75 answers in that order.
C6_ReadPageSequence ==
    call.fn = "readSpool" =>
        LET r == ReadPageCmds
        IN  /\ \A k \in 1..Len(r) : r[k].cmd = <<255, 176, 0, 3 + k, 4>>
            /\ (pc \in {"returned", "shown"} /\ caught = "") =>
                  /\ Len(r) = 75
                  /\ sent = <<Exchange(get_uid, card.uid, sucess)>> \o r
                  /\ tag_data = Flatten([k \in 1..75 |-> r[k].recv])
                  /\ call.ui =>
                        LET d == decode(tag_data)
                        IN  ret = Return("tuple", 6, <<d.cardStatus, serial, d.r_guid,
                                                      d.r_total, d.r_remain, d.r_time>>)

\* a read that went through: pages 4 .. 78
C6_WholeTagRead ==
    /\ call.fn = "readSpool"
    /\ pc = "returned"
    /\ caught = ""
    /\ Len(ReadPageCmds) = 75
    /\ ReadPageCmds[75].cmd[4] = 78
    /\ Len(tag_data) = 300

(***************************************************************************)
(* Properties of the codec                                                 *)
(***************************************************************************)
\* C7: the buffer MyFilamentSpool.data() returns has a length that is a
\* multiple of 4; it is the four framed records followed by fewer than 4
\* zero bytes, and by none when the framed records already fill whole
\* pages.
C7_ImageIsWholePages ==
    (cx.step = "built" /\ cx.enc.image.ok) =>
        LET Padded(f, im) ==
                /\ Len(im) % 4 = 0
                /\ Len(im) >= Len(f)
                /\ Len(im) - Len(f) < 4
                /\ SubSeq(im, 1, Len(f)) = f
                /\ \A n \in (Len(f) + 1)..Len(im) : im[n] = 0
                /\ (Len(f) % 4 = 0) => im = f
        IN  cx.enc.framed.ok /\ Padded(cx.enc.framed.val, cx.enc.image.val)

\* a spool whose 226 framed bytes were padded to 57 pages
C7_PaddedImage ==
    /\ cx.step = "built"
    /\ cx.enc.image.ok
    /\ Len(cx.enc.framed.val) = 226
    /\ Len(cx.enc.image.val) = 228

\* the bytes of a text field of `size` bytes at offset `at` of a payload:
\* the UTF-8 bytes of the text, cut at the end of the field, then zeros
TextField(payload, at, size, text) ==
    LET Holds(bytes) ==
            \A n \in 1..size :
                payload[at + n] = IF n <= Len(bytes) THEN bytes[n] ELSE 0
    IN  Holds(Utf8Encode(text))

\* C8: for every record whose numbers fit their fields, the encoded
\* payload of a Material record has 108 bytes, of a Stat record 20 and of
\* a Signature record 2; in the Material payload the serial number fills
\* bytes 2..15 and the batch code bytes 42..107, zero-padded when shorter
\* and cut when longer, and the timestamp, the material id and the station
\* id stand at offsets 16, 24 and 40 whatever the lengths of the texts.
C8_FixedPayloadLayout ==
    (cx.step \in {"encoded", "decoded"}) =>
        LET Material(r, e) ==
                (/\ r.version \in 0..255
                 /\ r.compat_version \in 0..255
                 /\ r.manufacturing_ts >= 0
                 /\ r.station_id \in 0..65535) =>
                    /\ e.ok
                    /\ Len(e.val) = 108
                    /\ e.val[1] = r.version
                    /\ e.val[2] = r.compat_version
                    /\ TextField(e.val, 2, 14, r.serial)
                    /\ UnpackBE(SubSeq(e.val, 17, 24)) = r.manufacturing_ts
                    /\ SubSeq(e.val, 25, 40) = r.material_id
                    /\ UnpackBE(SubSeq(e.val, 41, 42)) = r.station_id
                    /\ TextField(e.val, 42, 66, r.batch_code)
            Stat(r, e) ==
                (/\ r.version \in 0..255
                 /\ r.compat_version \in 0..255
                 /\ r.material_unit \in 0..3
                 /\ r.material_total >= 0
                 /\ r.material_remaining >= 0
                 /\ r.total_usage_duration >= 0) => (e.ok /\ Len(e.val) = 20)
            Sig(r, e) == (r.sig \in 0..65535) => (e.ok /\ Len(e.val) = 2)
        IN  IF cx.input.cls = "UltimakerMaterialRecord" THEN Material(cx.input, cx.enc)
            ELSE IF cx.input.cls = "UltimakerStatRecord" THEN Stat(cx.input, cx.enc)
            ELSE Sig(cx.input, cx.enc)

\* a Material record with an over-long serial number and an over-long batch
\* code, encoded
C8_OverlongTextsEncoded ==
    /\ cx.step = "encoded"
    /\ cx.input.cls = "UltimakerMaterialRecord"
    /\ Len(cx.input.serial) > 14
    /\ Len(cx.input.batch_code) > 66
    /\ cx.input.manufacturing_ts > 0
    /\ cx.enc.ok
    /\ Len(cx.enc.val) = 108

\* C9: for every Material, Stat and Signature record within its limits
\* (serial up to 14 bytes, batch code up to 66 bytes, numbers within their
\* fields, unit in 0..3), decoding the encoded payload gives a record with
\* every field equal to the original.
C9_RoundTrip ==
    (cx.step = "decoded") =>
        LET Within(r) ==
                IF r.cls = "UltimakerMaterialRecord"
                THEN /\ Len(Utf8Encode(r.serial)) <= 14
                     /\ Len(Utf8Encode(r.batch_code)) <= 66
                ELSE IF r.cls = "UltimakerStatRecord"
                THEN r.material_unit \in 0..3
                ELSE TRUE
        IN  Within(cx.input) => (cx.dec.ok /\ cx.dec.val = cx.input)

\* a batch code of 65 bytes came back with 64
C9_BatchCodeCut ==
    /\ cx.step = "decoded"
    /\ cx.input.cls = "UltimakerMaterialRecord"
    /\ Len(cx.input.batch_code) = 65
    /\ cx.dec.ok
    /\ Len(cx.dec.val.batch_code) = 64
    /\ cx.dec.val.serial = cx.input.serial

\* a payload shorter than what the decoder of its class reads: 42 bytes of
\* a Material record, 20 of a Stat record, 2 of a Signature record
TooShort(part) ==
    Len(part.payload) < (IF part.cls = "UltimakerMaterialRecord" THEN 42
                         ELSE IF part.cls = "UltimakerStatRecord" THEN 20
                         ELSE 2)

\* the place of the first too-short record of a buffer, 0 if it has none
FirstShort(parts) ==
    IF \A k \in 1..Len(parts) : ~TooShort(parts[k]) THEN 0
    ELSE CHOOSE k \in 1..Len(parts) :
            TooShort(parts[k]) /\ \A m \in 1..(k - 1) : ~TooShort(parts[m])

\* the places of the Stat records among the first n records
StatsUpTo(parts, n) == {k \in 1..n : parts[k].cls = "UltimakerStatRecord"}

C11_MaterialThenGarbage ==
    (cx.step = "scanned" /\ cx.input.parts = <<MaterialPart(108)>>) =>
        LET Only(m, ui) ==
                /\ ui.cardStatus \in {0, 1}
                /\ ui.r_guid = IdGeneric
                /\ ui.r_total = 0
                /\ ui.r_remain = 0
                /\ ui.r_time = [whole |-> 0, secs |-> 0]
                /\ Len(m.records) >= 1
                /\ m.records[1].rec.cls = "UltimakerMaterialRecord"
                /\ m.records[1].rec.material_id = SubSeq(cx.input.parts[1].payload, 25, 40)
                /\ \A k \in 2..Len(m.records) : m.records[k].rec.cls = "Record"
        IN  Only(cx.dec.m, cx.dec.ui)

\* the decoder raised on the garbage after the Material record and the
\* result still carries the material id
C11_GarbageRaisedInside ==
    /\ cx.step = "scanned"
    /\ cx.input.parts = <<MaterialPart(108)>>
    /\ Len(cx.input.tail) > 0
    /\ cx.dec.m.exc /= ""
    /\ cx.dec.ui.cardStatus = 1
    /\ cx.dec.ui.r_guid = IdGeneric

\* C12: decoding a 20-byte Stat payload whose crc byte does not match the
\* first 19 bytes gives what decoding the same 19 bytes with the right crc
\* byte gives: when the unit byte is one a Stat record has (0..3) the
\* decoding succeeds with the mismatch noted and the version, compatibility
\* version, unit, total, remaining and duration read from the 19 bytes;
\* when the unit byte is above 3 both decodings end with the same exception.
C12_CrcMismatchNotFatal ==
    (cx.step = "parsed" /\ cx.input.octets[20] /= crc8(cx.input.body)) =>
        LET Same(b, got, right) ==
                /\ got.ok = right.ok
                /\ b[3] <= 3 =>
                      /\ got.ok
                      /\ got.warn /\ ~right.warn
                      /\ got.val = right.val
                      /\ got.val.version = b[1]
                      /\ got.val.compat_version = b[2]
                      /\ got.val.material_unit = b[3]
                      /\ got.val.material_total = UnpackBE(SubSeq(b, 4, 7))
                      /\ got.val.material_remaining = UnpackBE(SubSeq(b, 8, 11))
                      /\ got.val.total_usage_duration = UnpackBE(SubSeq(b, 12, 19))
                /\ b[3] > 3 => got = right
        IN  Same(cx.input.body, cx.dec,
                 UltimakerStatRecord_decode_payload(cx.input.body \o <<crc8(cx.input.body)>>))

\* a Stat payload with a wrong crc byte has been decoded into its fields
C12_WrongCrcDecoded ==
    /\ cx.step = "parsed"
    /\ cx.input.octets[20] /= crc8(cx.input.body)
    /\ cx.dec.ok
    /\ cx.dec.warn
    /\ cx.dec.val.material_total = 750000
    /\ cx.dec.val.material_remaining = 500000
    /\ cx.dec.val.total_usage_duration = 3601

\* C13: the outcome readSpool(ui=True) returns carries a crc mismatch
\* flag: the outcome of reading the tag whose first Stat record has a wrong
\* crc byte differs from the outcome of reading the tag that holds the same
\* bytes with the right crc byte.
C13_OutcomeTellsCrcMismatch ==
    (call.fn = "readSpool" /\ call.ui /\ pc = "returned" /\ caught = ""
     /\ tag_data = SpoolMemCrc) =>
        LET Outcome(d) ==
                Return("tuple", 6, <<d.cardStatus, serial, d.r_guid, d.r_total,
                                    d.r_remain, d.r_time>>)
        IN  ret /= Outcome(decode(SpoolMem))

\* the tag with the wrong crc byte has been read whole, the decoder met the
\* mismatch at the third record, and the read reports a valid spool
C13_CrcMismatchRead ==
    /\ call.fn = "readSpool"
    /\ call.ui
    /\ pc = "returned"
    /\ caught = ""
    /\ tag_data = SpoolMemCrc
    /\ tag_data /= SpoolMem
    /\ message_decoder(tag_data).records[3].warn
    /\ ret.items[1] = 0
    /\ ret.items[4] = 750000

\* what C14 says of the records decoded from the image of a spool made of
\* the arguments a, with ser the serial number expected in the Material
\* record
C14_FourRecords(m, a, ser) ==
    /\ m.exc = ""
    /\ Len(m.records) = 4
    /\ [n \in 1..4 |-> m.records[n].rec.cls]
          = <<"UltimakerMaterialRecord", "SigRecord", "UltimakerStatRecord",
              "UltimakerStatRecord">>
    /\ [n \in 1..4 |-> m.records[n].mb] = <<TRUE, FALSE, FALSE, FALSE>>
    /\ [n \in 1..4 |-> m.records[n].me] = <<FALSE, FALSE, FALSE, TRUE>>
    /\ m.records[1].rec = UltimakerMaterialRecord(uuid_UUID(a.id).val, ser, 0, 0, 0,
                                                  StationId, BatchCode)
    /\ m.records[3].rec = m.records[4].rec
    /\ m.records[3].rec.material_unit = a.unit
    /\ m.records[3].rec.material_total = a.weight
    /\ m.records[3].rec.material_remaining = a.weight
    /\ m.records[3].rec.total_usage_duration = 0
    /\ ~m.records[3].warn
    /\ ~m.records[4].warn

C15_Stage(p) ==
    IF p = "idle" THEN 0
    ELSE IF p = "waitforcard" THEN 1
    ELSE IF p \in {"connect", "get_uid"} THEN 2
    ELSE IF p \in {"build", "write_page", "beep", "read_page", "decode"} THEN 3
    ELSE 4

\* C15: every writeSpool and readSpool goes through waiting for the card,
\* connecting, exchanging and the end in that order, or ends early: nothing
\* is transmitted before the card is present and connected; the first
\* command transmitted is get_uid and no later one is; the beep is
\* transmitted only by a write, after the write of the last page of the
\* image, and nothing is transmitted after it; an operation ends without an
\* exception caught only from the exchanging stage.
C15_StagesInOrder ==
    /\ [](pc \in {"idle", "waitforcard", "connect", "get_uid"} => sent = <<>>)
    /\ [](sent /= <<>> => service = "service")
    /\ [](\A k \in 1..Len(sent) :
            /\ (k = 1) <=> (sent[k].cmd = get_uid)
            /\ sent[k].cmd = beep =>
                  /\ call.fn = "writeSpool"
                  /\ k = Len(sent)
                  /\ Len(tag_data) > 0
                  /\ Len(WritePageCmds) = Len(tag_data) \div PageSize
                  /\ Len(WritePageCmds) = k - 2
                  /\ C15_Stage(pc) = 4)
    /\ [][/\ call' /= call => (pc' = "waitforcard" /\ sent' = <<>>)
          /\ call' = call =>
                /\ C15_Stage(pc') \in {C15_Stage(pc), C15_Stage(pc) + 1, 4}
                /\ (C15_Stage(pc) = 4 \/ sent = sent'
                    \/ (Len(sent') = Len(sent) + 1
                        /\ SubSeq(sent', 1, Len(sent)) = sent))
                /\ (C15_Stage(pc) = 4 => sent' = sent)
                /\ (C15_Stage(pc) < 4 /\ C15_Stage(pc') = 4 /\ caught' = "")
                      => C15_Stage(pc) = 3]_vars

\* a write has gone through all its stages: get_uid, the 57 pages of the
\* image, the beep, and the return
C15_WriteRanToTheBeep ==
    /\ call.fn = "writeSpool"
    /\ pc = "returned"
    /\ caught = ""
    /\ Len(sent) = (Len(tag_data) \div PageSize) + 2
    /\ sent[1].cmd = get_uid
    /\ sent[Len(sent)].cmd = beep
    /\ \A k \in 2..(Len(sent) - 1) : sent[k].cmd[2] = 214

\* C16: writeSpool transmits the beep only after a write in which every
\* write-page exchange returned the status pair 90 00.
C16_BeepOnlyAfterCleanWrite ==
    (call.fn = "writeSpool" /\ Len(sent) > 0 /\ sent[Len(sent)].cmd = beep) =>
        LET Clean(w) == \A k \in 1..Len(w) : w[k].sw = sucess
        IN  Clean(WritePageCmds)

\* the beep has been transmitted after a write in which the tag refused
\* page 10 with the status pair 63 00 and kept its bytes
C16_BeepAfterRefusedPage ==
    /\ call.fn = "writeSpool"
    /\ pc = "returned"
    /\ caught = ""
    /\ sent[Len(sent)].cmd = beep
    /\ \E k \in 1..Len(sent) :
          /\ sent[k].cmd = cmd_write_page(10, Slice(tag_data, 24, 28))
          /\ sent[k].sw = fail
    /\ PageOf(card.mem, 10) /= Slice(tag_data, 24, 28)

\* the inputs of the running writeSpool can be encoded: the id is a UUID,
\* the unit is in 0..3 and the total fits 32 bits
C17_Encodable ==
    /\ uuid_UUID(call.id).ok
    /\ call.unit \in 0..3
    /\ FitsUnsigned(call.tw, 4)

\* C17: the whole image is built before the first write-page command, and
\* a writeSpool whose inputs cannot be encoded (id that is no UUID, total
\* below 0, unit outside 0..3) transmits no write-page command and no beep
\* and leaves the pages of the tag as they were.
C17_NothingWrittenUnlessEncoded ==
    /\ []((call.fn = "writeSpool" /\ Len(sent) > 1) =>
            /\ C17_Encodable
            /\ BuildImage(call.id, serial, call.unit, call.tw).ok
            /\ tag_data = BuildImage(call.id, serial, call.unit, call.tw).val
            /\ Len(tag_data) % PageSize = 0)
    /\ []((call.fn = "writeSpool" /\ ~C17_Encodable) =>
            /\ WritePageCmds = <<>>
            /\ \A k \in 1..Len(sent) : sent[k].cmd = get_uid
            /\ pc \notin {"write_page", "beep"})
    /\ [][(call.fn = "writeSpool" /\ ~C17_Encodable) => card' = card]_vars

\* a writeSpool with a unit the constructor takes and the encoder does not
\* has ended in struct.error after get_uid alone, the tag still holding
\* the earlier spool
C17_UnencodableWriteStopped ==
    /\ call.fn = "writeSpool"
    /\ call.unit = -1
    /\ uuid_UUID(call.id).ok
    /\ pc = "raised"
    /\ ret = Raise("struct.error")
    /\ Len(sent) = 1
    /\ card.mem = SpoolMem

\* C18: readSpool(ui=True) returns status 0 only when the buffer it read
\* yielded a Material record and a Stat record.
C18_ValidNeedsMaterialAndStat ==
    (call.fn = "readSpool" /\ call.ui /\ pc \in {"returned", "shown"}
     /\ ret.py = "tuple" /\ ret.items[1] = 0) =>
        LET Both(recs) ==
                /\ \E n \in 1..Len(recs) : recs[n].rec.cls = "UltimakerMaterialRecord"
                /\ \E n \in 1..Len(recs) : recs[n].rec.cls = "UltimakerStatRecord"
        IN  Both(message_decoder(tag_data).records)

\* a tag holding nothing but zero bytes has been read and shown as a valid
\* spool with an empty material id and zero quantities
C18_BlankTagShownValid ==
    /\ call.fn = "readSpool"
    /\ pc = "shown"
    /\ tag_data = Zeros(tagDataLength)
    /\ message_decoder(tag_data).exc = ""
    /\ \A n \in 1..Len(message_decoder(tag_data).records) :
          message_decoder(tag_data).records[n].rec.cls = "Record"
    /\ ret.items[1] = 0
    /\ ret.items[3] = <<>>
    /\ ret.items[4] = 0
    /\ gui.tagStatus = "Valid Spool Tag"

====
